---- MODULE Spec2Model ----
(***************************************************************************)
(* A model of the VirtualizedList component                                *)
(* (src/src/components/Panels/VirtualizedList.tsx, lines 158-643).         *)
(*                                                                         *)
(* The component is a React function component.  Its state is the state   *)
(* hooks (totalHeight, requestedPos, elementsToSize, visibleElements), the *)
(* refs (heights, calculationQueue, cancelCalculation, scrollPosition,     *)
(* lastViewport, measuring, firstElementIndex, mounted) and the host DOM   *)
(* element (scrollTop, offsetHeight).  One commit of the component is the  *)
(* sequence Render, the four layout effects in declaration order, and the  *)
(* passive effect; pc names the position in that sequence.  State updates  *)
(* made by a layout effect are rendered by a further synchronous commit;   *)
(* updates made outside React's event handlers (the animation-frame        *)
(* callback, the resize observer) are rendered at once, and updates made   *)
(* inside one event handler are rendered together when the handler ends.   *)
(***************************************************************************)
EXTENDS Integers, Sequences, FiniteSets

\* ---- bounds of the model
MaxItems == 3
MaxEvents == 2

\* ---- program constants
MAX_LIST_PIXELS == 10000000

\* ---- the inputs the environment may supply
ItemHeights == {2, 5000000, 10000001}
MeasuredHeights == {0, 6000000}
HostSizes == {0, 4}
InitialHostSize == 4
WheelDeltas == {-20, 20}
DragTargets == {1}
RefreshPositions == {-1, 1}
BatchSizes == {1, 2}
HeightModes == {"fixed", "dynamic"}

VARIABLES
    \* props
    itemsCount, heightMode, itemHeight, calcBatchSize, deferPositionRefresh,
    \* state hooks: the value the current render sees, and the value set since
    totalHeight, totalHeightNext,
    requestedPos, requestedPosNext,
    elementsToSize, elementsNext, elementsFresh,
    visibleElements, visibleNext, visibleFresh,
    \* refs
    mounted, heights, calculationQueue, cancelCalculation, scrollPosition,
    lastViewport, measuring, firstElementIndex,
    \* the host element and the vertical scrollbar
    hostAttached, hostScrollTop, hostHeight, verticalDims,
    \* scheduling
    pc, rafPending, committedCount, e2due, e4due, events,
    \* the exception that ended the component (if any), the size read from the
    \* sizer host for each item in the current pass, the last value passed to
    \* the scrolled callback, and the last helper that wrote the position index or the queue
    error, lastMeasured, lastScrolled, lastIndexOp,
    \* the bookkeeping of scroll requests: the last call of setRequestedPos, the
    \* number of the call whose target requestedPos holds (rendered and set
    \* since), the request applied by updateRequestedPosition in the current
    \* commit, and the call of ensureVisible just made
    lastRequest, requestedId, requestedIdNext, lastApplied, lastEnsure,
    \* the calls of forceRefresh made in a row since the last other step, and
    \* the viewport getViewPort returned after the first of them
    lastRefresh

propVars == <<itemsCount, heightMode, itemHeight, calcBatchSize, deferPositionRefresh>>
hookVars == <<totalHeight, totalHeightNext, requestedPos, requestedPosNext,
              elementsToSize, elementsNext, elementsFresh,
              visibleElements, visibleNext, visibleFresh>>
refVars == <<mounted, heights, calculationQueue, cancelCalculation, scrollPosition,
             lastViewport, measuring, firstElementIndex>>
hostVars == <<hostAttached, hostScrollTop, hostHeight, verticalDims>>
schedVars == <<pc, rafPending, committedCount, e2due, e4due, events>>
ghostVars == <<error, lastMeasured, lastScrolled, lastIndexOp>>
requestVars == <<lastRequest, requestedId, requestedIdNext, lastApplied, lastEnsure,
                 lastRefresh>>
vars == <<propVars, hookVars, refVars, hostVars, schedVars, ghostVars, requestVars>>

\* ---- helpers
Max(a, b) == IF a >= b THEN a ELSE b
Min(a, b) == IF a <= b THEN a ELSE b

NoError == [kind |-> "none", index |-> -1]
NoViewport == [startIndex |-> -1, endIndex |-> -1]
NoDims == [hostSize |-> -1, hostScrollPos |-> -1, hostScrollSize |-> -1]
NotMeasured == [i \in 0..(MaxItems - 1) |-> -1]
NoRequest == [id |-> 0, op |-> "none", arg |-> -1, target |-> -1, held |-> FALSE,
              over |-> FALSE]
NoApplied == [id |-> 0, latest |-> 0, op |-> "none", arg |-> -1, held |-> FALSE,
              over |-> FALSE, asked |-> -1, target |-> -1, pos |-> -1,
              settled |-> FALSE]
NoEnsure == [index |-> -1, visible |-> FALSE]
NoRefresh == [calls |-> 0, view |-> [kind |-> "none", startIndex |-> -1, endIndex |-> -1]]

\* the sum of the heights stored in a position index
RECURSIVE SumHeights(_)
SumHeights(h) == IF h = <<>> THEN 0 ELSE h[1].height + SumHeights(Tail(h))

\* the sequence 0, 1, ..., n-1
Iota(n) == [i \in 1..n |-> i - 1]

\* ------------------------------------------------------------------------
\* setInitialHeights: the loop of lines 367-383.  i is the loop index, top
\* the running offset, acc the extents built so far and q the queue built so
\* far.  The result is either the error thrown at line 378 (with the index it
\* names) or the values assigned at lines 384-386.
\* (variant: the queue is filled whatever the height mode is)
RECURSIVE initLoopQueueAlways(_, _, _, _, _, _, _)
initLoopQueueAlways(n, s, mode, i, top, acc, q) ==
    IF i >= n
    THEN [kind |-> "ok", index |-> -1, heights |-> acc, total |-> top, queue |-> q]
    ELSE LET entry == [top |-> top, height |-> s, resolved |-> (mode = "fixed")]
             top2 == top + s
         IN  IF top2 > MAX_LIST_PIXELS
             THEN [kind |-> "MaxHeight", index |-> i, heights |-> <<>>, total |-> 0,
                   queue |-> <<>>]
             ELSE initLoopQueueAlways(n, s, mode, i + 1, top2, Append(acc, entry),
                                      Append(q, i))

\* (variant: a total equal to the maximum is rejected too)
RECURSIVE initLoopAtMaximum(_, _, _, _, _, _, _)
initLoopAtMaximum(n, s, mode, i, top, acc, q) ==
    IF i >= n
    THEN [kind |-> "ok", index |-> -1, heights |-> acc, total |-> top, queue |-> q]
    ELSE LET entry == [top |-> top, height |-> s, resolved |-> (mode = "fixed")]
             top2 == top + s
             q2 == IF mode = "dynamic" THEN Append(q, i) ELSE q
         IN  IF top2 >= MAX_LIST_PIXELS
             THEN [kind |-> "MaxHeight", index |-> i, heights |-> <<>>, total |-> 0,
                   queue |-> <<>>]
             ELSE initLoopAtMaximum(n, s, mode, i + 1, top2, Append(acc, entry), q2)

RECURSIVE initLoop(_, _, _, _, _, _, _)
initLoop(n, s, mode, i, top, acc, q) ==
    IF i >= n
    THEN [kind |-> "ok", index |-> -1, heights |-> acc, total |-> top, queue |-> q]
    ELSE LET entry == [top |-> top, height |-> s, resolved |-> (mode = "fixed")]
             top2 == top + s
             q2 == IF mode = "dynamic" THEN Append(q, i) ELSE q
         IN  IF top2 > MAX_LIST_PIXELS
             THEN [kind |-> "MaxHeight", index |-> i, heights |-> <<>>, total |-> 0,
                   queue |-> <<>>]
             ELSE initLoop(n, s, mode, i + 1, top2, Append(acc, entry), q2)

setInitialHeights(n, s, mode) == initLoop(n, s, mode, 0, 0, <<>>, <<>>)

\* ------------------------------------------------------------------------
\* processHeightMeasureBatch, lines 392-417: the indices shifted off the
\* queue.  The cancellation flag is read before each shift; when it is set the
\* batch returns at once, clears the flag and publishes nothing; published
\* tells whether lines 415-416 were reached.
\* (variant: the indices are taken from the back of the queue)
RECURSIVE batchLoopFromBack(_, _, _, _, _)
batchLoopFromBack(queue, cancel, batchItems, i, popped) ==
    IF i >= batchItems
    THEN [queue |-> queue, cancel |-> cancel, popped |-> popped, published |-> TRUE]
    ELSE IF cancel
         THEN [queue |-> queue, cancel |-> FALSE, popped |-> popped, published |-> FALSE]
         ELSE batchLoopFromBack(SubSeq(queue, 1, Len(queue) - 1), cancel, batchItems, i + 1,
                                Append(popped, queue[Len(queue)]))

\* (variant: the cancellation flag is never looked at)
RECURSIVE batchLoopNoCancel(_, _, _, _, _)
batchLoopNoCancel(queue, cancel, batchItems, i, popped) ==
    IF i >= batchItems
    THEN [queue |-> queue, cancel |-> cancel, popped |-> popped, published |-> TRUE]
    ELSE batchLoopNoCancel(Tail(queue), cancel, batchItems, i + 1,
                           Append(popped, Head(queue)))

\* (variant: the index is shifted off the queue before the flag is looked at)
RECURSIVE batchLoopShiftFirst(_, _, _, _, _)
batchLoopShiftFirst(queue, cancel, batchItems, i, popped) ==
    IF i >= batchItems
    THEN [queue |-> queue, cancel |-> cancel, popped |-> popped, published |-> TRUE]
    ELSE IF cancel
         THEN [queue |-> Tail(queue), cancel |-> FALSE,
               popped |-> Append(popped, Head(queue)), published |-> FALSE]
         ELSE batchLoopShiftFirst(Tail(queue), cancel, batchItems, i + 1,
                                  Append(popped, Head(queue)))

RECURSIVE batchLoop(_, _, _, _, _)
batchLoop(queue, cancel, batchItems, i, popped) ==
    IF i >= batchItems
    THEN [queue |-> queue, cancel |-> cancel, popped |-> popped, published |-> TRUE]
    ELSE IF cancel
         THEN [queue |-> queue, cancel |-> FALSE, popped |-> popped, published |-> FALSE]
         ELSE batchLoop(Tail(queue), cancel, batchItems, i + 1, Append(popped, Head(queue)))

\* (variant: a batch takes the whole queue, whatever the batch size is)
processHeightMeasureBatchWhole(queue, cancel, batchSize) ==
    IF Len(queue) = 0
    THEN [queue |-> queue, cancel |-> cancel, popped |-> <<>>, published |-> FALSE]
    ELSE batchLoop(queue, cancel, Len(queue), 0, <<>>)

processHeightMeasureBatch(queue, cancel, batchSize) ==
    IF Len(queue) = 0
    THEN [queue |-> queue, cancel |-> cancel, popped |-> <<>>, published |-> FALSE]
    ELSE batchLoop(queue, cancel, Min(Len(queue), batchSize), 0, <<>>)

\* ------------------------------------------------------------------------
\* applyMeasuredItemDimensions, lines 422-463.  h is heights.current, first is
\* firstElementIndex.current, sizes are the offsetHeight values of the children
\* of the sizer host, in order.
\* (variant: an item's offset is stored as the offset of its end)
RECURSIVE storeMeasuredEnd(_, _, _, _, _)
storeMeasuredEnd(h, first, sizes, i, top) ==
    IF i >= Len(sizes)
    THEN h
    ELSE LET entry == [top |-> top + sizes[i + 1], height |-> sizes[i + 1],
                       resolved |-> TRUE]
             itemIndex == i + first
             h2 == IF itemIndex < Len(h)
                   THEN [h EXCEPT ![itemIndex + 1] = entry]
                   ELSE Append(h, entry)
         IN  storeMeasuredEnd(h2, first, sizes, i + 1, top + sizes[i + 1])

RECURSIVE storeMeasured(_, _, _, _, _)
storeMeasured(h, first, sizes, i, top) ==
    IF i >= Len(sizes)
    THEN h
    ELSE LET entry == [top |-> top, height |-> sizes[i + 1], resolved |-> TRUE]
             itemIndex == i + first
             h2 == IF itemIndex < Len(h)
                   THEN [h EXCEPT ![itemIndex + 1] = entry]
                   ELSE Append(h, entry)
         IN  storeMeasured(h2, first, sizes, i + 1, top + sizes[i + 1])

\* (variant: the items after the run are not shifted and not added up)
shiftRemainingSkipped(h, i, nextTop) == [heights |-> h, total |-> nextTop]

\* (variant: the items after the run are marked resolved as they are shifted)
RECURSIVE shiftRemainingResolving(_, _, _)
shiftRemainingResolving(h, i, nextTop) ==
    IF i >= Len(h)
    THEN [heights |-> h, total |-> nextTop]
    ELSE shiftRemainingResolving([h EXCEPT ![i + 1].top = nextTop,
                                           ![i + 1].resolved = TRUE],
                                 i + 1, nextTop + h[i + 1].height)

RECURSIVE shiftRemaining(_, _, _)
shiftRemaining(h, i, nextTop) ==
    IF i >= Len(h)
    THEN [heights |-> h, total |-> nextTop]
    ELSE shiftRemaining([h EXCEPT ![i + 1].top = nextTop], i + 1, nextTop + h[i + 1].height)

\* (variant: the sizes are stored from the first item of the list on)
applyMeasuredItemDimensionsAtStart(h, first, sizes) ==
    LET stored == storeMeasured(h, 0, sizes, 0, 0)
        last == stored[Len(sizes)]
    IN  shiftRemaining(stored, Len(sizes), last.top + last.height)

applyMeasuredItemDimensions(h, first, sizes) ==
    LET top == IF first # 0 THEN h[first].top + h[first].height ELSE 0
        stored == storeMeasured(h, first, sizes, 0, top)
        last == stored[first + Len(sizes)]
    IN  shiftRemaining(stored, Len(sizes) + first, last.top + last.height)

\* ------------------------------------------------------------------------
\* binarySearch, lines 603-626.  items[middle] is undefined when middle is
\* outside the array, and reading its top is a TypeError; when the value is
\* the top of a zero-height middle item neither branch of lines 614-618 moves
\* the search area and the loop never ends.
RECURSIVE searchLoop(_, _, _, _, _)
searchLoop(items, value, startIndex, stopIndex, middle) ==
    IF middle < 0 \/ middle >= Len(items)
    THEN [kind |-> "TypeError", index |-> middle]
    ELSE LET it == items[middle + 1]
         IN  IF (value < it.top \/ value >= it.top + it.height) /\ startIndex < stopIndex
             THEN IF value < it.top
                  THEN searchLoop(items, value, startIndex, middle - 1,
                                  Max(0, (middle - 1 + startIndex) \div 2))
                  ELSE IF value > it.top
                       THEN searchLoop(items, value, middle + 1, stopIndex,
                                       Max(0, (stopIndex + middle + 1) \div 2))
                       ELSE [kind |-> "Hang", index |-> middle]
             ELSE [kind |-> "ok", index |-> middle]

binarySearch(items, value) ==
    searchLoop(items, value, 0, Len(items) - 1, (Len(items) - 1 + 0) \div 2)

\* getViewPort, lines 592-601, for a host at scroll offset scrollTop with
\* offsetHeight height; attached is whether componentHost.current is set.
getViewPort(items, attached, scrollTop, height) ==
    IF ~attached
    THEN [kind |-> "ok", startIndex |-> -1, endIndex |-> -1]
    ELSE LET s == binarySearch(items, scrollTop)
             e == binarySearch(items, scrollTop + height)
         IN  IF s.kind # "ok"
             THEN [kind |-> s.kind, startIndex |-> -1, endIndex |-> -1]
             ELSE IF e.kind # "ok"
                  THEN [kind |-> e.kind, startIndex |-> -1, endIndex |-> -1]
                  ELSE [kind |-> "ok", startIndex |-> s.index, endIndex |-> e.index]

\* ------------------------------------------------------------------------
\* The host element: its scrollable size is the height of the inner element
\* (line 308) or its own height when that is larger, and an assignment to
\* scrollTop (line 497) is clamped to the scrollable range.
hostScrollSize(total, height) == Max(total, height)

\* (variant: the host keeps whatever offset it is given)
hostClampNone(pos, total, height) == pos

hostClamp(pos, total, height) == Max(0, Min(pos, hostScrollSize(total, height) - height))

\* ------------------------------------------------------------------------
\* renderVisibleElements, lines 508-544, for a host at scrollTop with
\* offsetHeight hh; last is lastViewport.current.  changed tells whether lines
\* 530-543 were reached.
renderVisibleElements(items, attached, scrollTop, hh, deferred, last) ==
    LET same == [kind |-> "ok", changed |-> FALSE, view |-> last, visible |-> <<>>]
        view == getViewPort(items, attached, scrollTop, hh)
    IN  IF deferred
        THEN same
        ELSE IF view.kind # "ok"
             THEN [kind |-> view.kind, changed |-> FALSE, view |-> last, visible |-> <<>>]
             ELSE IF view.startIndex < 0 \/ view.endIndex < 0
                  THEN same
                  ELSE IF last.startIndex = view.startIndex /\ last.endIndex = view.endIndex
                       THEN same
                       ELSE [kind |-> "ok", changed |-> TRUE,
                             view |-> [startIndex |-> view.startIndex,
                                       endIndex |-> view.endIndex],
                             visible |-> [k \in 1..(view.endIndex - view.startIndex + 1) |->
                                            [index |-> view.startIndex + k - 1,
                                             top |-> items[view.startIndex + k].top]]]

\* an uncaught exception or an endless loop ends the component
Ended(kind) == IF kind = "Hang" THEN "hung" ELSE "crashed"

\* ------------------------------------------------------------------------
Init ==
    /\ itemsCount \in 0..MaxItems
    /\ heightMode \in HeightModes
    /\ itemHeight \in ItemHeights
    /\ calcBatchSize \in BatchSizes
    /\ deferPositionRefresh \in BOOLEAN
    /\ totalHeight = 0 /\ totalHeightNext = 0
    /\ requestedPos = -1 /\ requestedPosNext = -1
    /\ elementsToSize = <<>> /\ elementsNext = <<>> /\ elementsFresh = FALSE
    /\ visibleElements = <<>> /\ visibleNext = <<>> /\ visibleFresh = FALSE
    /\ mounted = FALSE
    /\ heights = <<>>
    /\ calculationQueue = <<>>
    /\ cancelCalculation = FALSE
    /\ scrollPosition = 0
    /\ lastViewport = NoViewport
    /\ measuring = FALSE
    /\ firstElementIndex = -1
    /\ hostAttached = FALSE
    /\ hostScrollTop = 0
    /\ hostHeight = InitialHostSize
    /\ verticalDims = NoDims
    /\ pc = "flush"
    /\ rafPending = 0
    /\ committedCount = -1
    /\ e2due = FALSE /\ e4due = FALSE
    /\ events = 0
    /\ error = NoError
    /\ lastMeasured = NotMeasured
    /\ lastScrolled = -1
    /\ lastIndexOp = "none"
    /\ lastRequest = NoRequest
    /\ requestedId = 0 /\ requestedIdNext = 0
    /\ lastApplied = NoApplied
    /\ lastEnsure = NoEnsure
    /\ lastRefresh = NoRefresh

\* ------------------------------------------------------------------------
\* The render of the component, lines 174-353: the closures of this commit
\* see the state set so far, the DOM is updated (the inner element takes the
\* new total height and the host clamps its scroll offset to it), and the
\* effects whose dependencies changed become due.
Render ==
    /\ pc \in {"event", "flush"}
    /\ totalHeight' = totalHeightNext
    /\ requestedPos' = requestedPosNext
    /\ requestedId' = requestedIdNext
    /\ lastEnsure' = NoEnsure
    /\ lastRefresh' = NoRefresh
    /\ elementsToSize' = elementsNext
    /\ visibleElements' = visibleNext
    /\ elementsFresh' = FALSE
    /\ visibleFresh' = FALSE
    /\ e2due' = (elementsFresh \/ ~hostAttached)
    /\ e4due' = (visibleFresh \/ ~hostAttached)
    /\ hostAttached' = TRUE
    /\ hostScrollTop' = hostClamp(hostScrollTop, totalHeightNext, hostHeight)
    /\ pc' = "E1"
    /\ UNCHANGED <<propVars, totalHeightNext, requestedPosNext, elementsNext, visibleNext,
                   refVars, hostHeight, verticalDims, rafPending, committedCount, events,
                   ghostVars, lastRequest, requestedIdNext, lastApplied>>

\* (variant: a rebuild that fails leaves an empty position index and queue)
LayoutItemsCountClearing ==
    /\ pc = "E1"
    /\ IF itemsCount # committedCount
       THEN LET r == setInitialHeights(itemsCount, itemHeight, heightMode)
            IN  IF r.kind # "ok"
                THEN /\ error' = [kind |-> r.kind, index |-> r.index]
                     /\ pc' = "crashed"
                     /\ heights' = r.heights
                     /\ calculationQueue' = r.queue
                     /\ UNCHANGED <<totalHeightNext, measuring,
                                    rafPending, committedCount, lastMeasured, lastIndexOp>>
                ELSE /\ heights' = r.heights
                     /\ totalHeightNext' = r.total
                     /\ calculationQueue' = r.queue
                     /\ measuring' = (heightMode = "dynamic")
                     /\ rafPending' = rafPending + 1
                     /\ committedCount' = itemsCount
                     /\ lastMeasured' = NotMeasured
                     /\ lastIndexOp' = "rebuild"
                     /\ pc' = "E2"
                     /\ UNCHANGED error
       ELSE /\ pc' = "E2"
            /\ UNCHANGED <<heights, totalHeightNext, calculationQueue, measuring, rafPending,
                           committedCount, lastMeasured, lastIndexOp, error>>
    /\ UNCHANGED <<propVars, totalHeight, requestedPos, requestedPosNext,
                   elementsToSize, elementsNext, elementsFresh,
                   visibleElements, visibleNext, visibleFresh,
                   mounted, cancelCalculation, scrollPosition, lastViewport,
                   firstElementIndex, hostVars, e2due, e4due, events, lastScrolled,
                   requestVars>>

\* The layout effect of lines 230-239, run when itemsCount changed.
LayoutItemsCount ==
    /\ pc = "E1"
    /\ IF itemsCount # committedCount
       THEN LET r == setInitialHeights(itemsCount, itemHeight, heightMode)
            IN  IF r.kind # "ok"
                THEN /\ error' = [kind |-> r.kind, index |-> r.index]
                     /\ pc' = "crashed"
                     /\ UNCHANGED <<heights, totalHeightNext, calculationQueue, measuring,
                                    rafPending, committedCount, lastMeasured, lastIndexOp>>
                ELSE /\ heights' = r.heights
                     /\ totalHeightNext' = r.total
                     /\ calculationQueue' = r.queue
                     /\ measuring' = (heightMode = "dynamic")
                     /\ rafPending' = rafPending + 1
                     /\ committedCount' = itemsCount
                     /\ lastMeasured' = NotMeasured
                     /\ lastIndexOp' = "rebuild"
                     /\ pc' = "E2"
                     /\ UNCHANGED error
       ELSE /\ pc' = "E2"
            /\ UNCHANGED <<heights, totalHeightNext, calculationQueue, measuring, rafPending,
                           committedCount, lastMeasured, lastIndexOp, error>>
    /\ UNCHANGED <<propVars, totalHeight, requestedPos, requestedPosNext,
                   elementsToSize, elementsNext, elementsFresh,
                   visibleElements, visibleNext, visibleFresh,
                   mounted, cancelCalculation, scrollPosition, lastViewport,
                   firstElementIndex, hostVars, e2due, e4due, events, lastScrolled,
                   requestVars>>

\* (variant: the pass is declared settled while one index is still queued)
LayoutElementsToSizeSettlingEarly ==
    /\ pc = "E2"
    /\ IF ~e2due
       THEN /\ pc' = "E3"
            /\ UNCHANGED <<heights, totalHeightNext, lastMeasured, lastIndexOp, error,
                           elementsNext, elementsFresh, measuring, calculationQueue,
                           cancelCalculation, firstElementIndex>>
       ELSE \E sizes \in [1..Len(elementsToSize) -> MeasuredHeights] :
            LET applies == Len(elementsToSize) > 0
                undefinedItem == applies /\ (firstElementIndex < 0
                                             \/ firstElementIndex > Len(heights))
                batch == processHeightMeasureBatch(calculationQueue, cancelCalculation,
                                                   calcBatchSize)
            IN  IF undefinedItem
                THEN /\ error' = [kind |-> "TypeError", index |-> firstElementIndex - 1]
                     /\ pc' = "crashed"
                     /\ UNCHANGED <<heights, totalHeightNext, lastMeasured, lastIndexOp,
                                    elementsNext, elementsFresh, measuring, calculationQueue,
                                    cancelCalculation, firstElementIndex>>
                ELSE /\ lastIndexOp' = IF Len(calculationQueue) # 0 /\ batch.popped # <<>>
                                        THEN "pop"
                                        ELSE IF applies THEN "apply" ELSE lastIndexOp
                     /\ IF applies
                        THEN LET a == applyMeasuredItemDimensions(heights, firstElementIndex,
                                                                  sizes)
                             IN  /\ heights' = a.heights
                                 /\ totalHeightNext' = a.total
                                 /\ lastMeasured' =
                                      [j \in 0..(MaxItems - 1) |->
                                         IF \E i \in 1..Len(elementsToSize) :
                                                elementsToSize[i] = j
                                         THEN sizes[CHOOSE i \in 1..Len(elementsToSize) :
                                                        elementsToSize[i] = j]
                                         ELSE lastMeasured[j]]
                        ELSE UNCHANGED <<heights, totalHeightNext, lastMeasured>>
                     /\ IF Len(calculationQueue) <= 1
                        THEN /\ elementsNext' = <<>>
                             /\ elementsFresh' = (elementsToSize # <<>>)
                             /\ measuring' = FALSE
                             /\ UNCHANGED <<calculationQueue, cancelCalculation,
                                            firstElementIndex>>
                        ELSE /\ calculationQueue' = batch.queue
                             /\ cancelCalculation' = batch.cancel
                             /\ IF batch.published
                                THEN /\ elementsNext' = batch.popped
                                     /\ elementsFresh' = TRUE
                                     /\ firstElementIndex' = Head(batch.popped)
                                ELSE UNCHANGED <<elementsNext, elementsFresh,
                                                 firstElementIndex>>
                             /\ UNCHANGED measuring
                     /\ pc' = "E3"
                     /\ UNCHANGED error
    /\ UNCHANGED <<propVars, totalHeight, requestedPos, requestedPosNext, elementsToSize,
                   visibleElements, visibleNext, visibleFresh,
                   mounted, scrollPosition, lastViewport,
                   hostVars, rafPending, committedCount, e2due, e4due, events, lastScrolled,
                   requestVars>>

\* The layout effect of lines 242-256, run when elementsToSize changed: the
\* sizes of the rendered batch are applied, then the pass settles or the next
\* batch is taken.
LayoutElementsToSize ==
    /\ pc = "E2"
    /\ IF ~e2due
       THEN /\ pc' = "E3"
            /\ UNCHANGED <<heights, totalHeightNext, lastMeasured, lastIndexOp, error,
                           elementsNext, elementsFresh, measuring, calculationQueue,
                           cancelCalculation, firstElementIndex>>
       ELSE \E sizes \in [1..Len(elementsToSize) -> MeasuredHeights] :
            LET applies == Len(elementsToSize) > 0
                undefinedItem == applies /\ (firstElementIndex < 0
                                             \/ firstElementIndex > Len(heights))
                batch == processHeightMeasureBatch(calculationQueue, cancelCalculation,
                                                   calcBatchSize)
            IN  IF undefinedItem
                THEN /\ error' = [kind |-> "TypeError", index |-> firstElementIndex - 1]
                     /\ pc' = "crashed"
                     /\ UNCHANGED <<heights, totalHeightNext, lastMeasured, lastIndexOp,
                                    elementsNext, elementsFresh, measuring, calculationQueue,
                                    cancelCalculation, firstElementIndex>>
                ELSE /\ lastIndexOp' = IF Len(calculationQueue) # 0 /\ batch.popped # <<>>
                                        THEN "pop"
                                        ELSE IF applies THEN "apply" ELSE lastIndexOp
                     /\ IF applies
                        THEN LET a == applyMeasuredItemDimensions(heights, firstElementIndex,
                                                                  sizes)
                             IN  /\ heights' = a.heights
                                 /\ totalHeightNext' = a.total
                                 /\ lastMeasured' =
                                      [j \in 0..(MaxItems - 1) |->
                                         IF \E i \in 1..Len(elementsToSize) :
                                                elementsToSize[i] = j
                                         THEN sizes[CHOOSE i \in 1..Len(elementsToSize) :
                                                        elementsToSize[i] = j]
                                         ELSE lastMeasured[j]]
                        ELSE UNCHANGED <<heights, totalHeightNext, lastMeasured>>
                     /\ IF Len(calculationQueue) = 0
                        THEN /\ elementsNext' = <<>>
                             /\ elementsFresh' = (elementsToSize # <<>>)
                             /\ measuring' = FALSE
                             /\ UNCHANGED <<calculationQueue, cancelCalculation,
                                            firstElementIndex>>
                        ELSE /\ calculationQueue' = batch.queue
                             /\ cancelCalculation' = batch.cancel
                             /\ IF batch.published
                                THEN /\ elementsNext' = batch.popped
                                     /\ elementsFresh' = TRUE
                                     /\ firstElementIndex' = Head(batch.popped)
                                ELSE UNCHANGED <<elementsNext, elementsFresh,
                                                 firstElementIndex>>
                             /\ UNCHANGED measuring
                     /\ pc' = "E3"
                     /\ UNCHANGED error
    /\ UNCHANGED <<propVars, totalHeight, requestedPos, requestedPosNext, elementsToSize,
                   visibleElements, visibleNext, visibleFresh,
                   mounted, scrollPosition, lastViewport,
                   hostVars, rafPending, committedCount, e2due, e4due, events, lastScrolled,
                   requestVars>>

\* ------------------------------------------------------------------------
\* The condition of line 496 under which updateRequestedPosition applies the
\* requested position pos.
\* (variant: the request is applied whether or not a measurement is in flight)
requestAppliesAlways(pos, defer, meas) == pos >= 0

requestApplies(pos, defer, meas) == pos >= 0 /\ (~defer \/ ~meas)

\* ------------------------------------------------------------------------
\* updateScrollbarDimensions (468-490), updateRequestedPosition (495-502) and
\* renderVisibleElements (508-544) called in this order, as the layout effect
\* of lines 269-275 and the resize callback of lines 260-265 do, for a host of
\* offsetHeight hh.  next is the position the commit moves to when no call
\* fails; "settle" stands for the end of a callback outside a commit.
Reconcile(hh, next) ==
    LET deferred == deferPositionRefresh /\ measuring
        applyPos == requestApplies(requestedPos, deferPositionRefresh, measuring)
        oldTop == hostClamp(hostScrollTop, totalHeight, hh)
        newTop == IF applyPos THEN hostClamp(requestedPos, totalHeight, hh) ELSE oldTop
        r == renderVisibleElements(heights, hostAttached, newTop, hh, deferred, lastViewport)
    IN  /\ verticalDims' = IF deferred
                           THEN verticalDims
                           ELSE [hostSize |-> hh, hostScrollPos |-> oldTop,
                                 hostScrollSize |-> hostScrollSize(totalHeight, hh)]
        /\ hostScrollTop' = newTop
        /\ scrollPosition' = IF applyPos THEN newTop ELSE scrollPosition
        /\ lastScrolled' = IF applyPos THEN newTop ELSE lastScrolled
        /\ requestedPosNext' = IF applyPos THEN -1 ELSE requestedPosNext
        /\ requestedIdNext' = IF applyPos THEN 0 ELSE requestedIdNext
        /\ lastApplied' = IF applyPos
                          THEN [id |-> requestedId, latest |-> lastRequest.id,
                                op |-> lastRequest.op, arg |-> lastRequest.arg,
                                held |-> lastRequest.held, over |-> lastRequest.over,
                                asked |-> lastRequest.target,
                                target |-> requestedPos, pos |-> newTop,
                                settled |-> (calculationQueue = <<>>
                                             /\ \A i \in 1..Len(heights) :
                                                    heights[i].resolved)]
                          ELSE lastApplied
        /\ lastRequest' = IF applyPos THEN NoRequest ELSE lastRequest
        /\ IF r.kind # "ok"
           THEN /\ error' = [kind |-> r.kind, index |-> -1]
                /\ pc' = Ended(r.kind)
                /\ UNCHANGED <<lastViewport, visibleNext, visibleFresh>>
           ELSE /\ IF r.changed
                   THEN /\ lastViewport' = r.view
                        /\ visibleNext' = r.visible
                        /\ visibleFresh' = TRUE
                   ELSE UNCHANGED <<lastViewport, visibleNext, visibleFresh>>
                /\ pc' = IF next # "settle"
                         THEN next
                         ELSE IF applyPos \/ r.changed THEN "flush" ELSE "idle"
                /\ UNCHANGED error

\* The layout effect of lines 269-275, run in every commit.
LayoutEveryRender ==
    /\ pc = "E3"
    /\ Reconcile(hostHeight, "E4")
    /\ UNCHANGED <<propVars, totalHeight, totalHeightNext, requestedPos,
                   elementsToSize, elementsNext, elementsFresh, visibleElements,
                   mounted, heights, calculationQueue, cancelCalculation, measuring,
                   firstElementIndex, hostAttached, hostHeight,
                   rafPending, committedCount, e2due, e4due, events, lastMeasured, lastIndexOp,
                   requestedId, lastEnsure, lastRefresh>>

\* The layout effect of lines 277-279, run when visibleElements changed.
LayoutVisibleElements ==
    /\ pc = "E4"
    /\ LET r == IF e4due
                THEN renderVisibleElements(heights, hostAttached, hostScrollTop, hostHeight,
                                           deferPositionRefresh /\ measuring, lastViewport)
                ELSE [kind |-> "ok", changed |-> FALSE, view |-> lastViewport,
                      visible |-> <<>>]
       IN  IF r.kind # "ok"
           THEN /\ error' = [kind |-> r.kind, index |-> -1]
                /\ pc' = Ended(r.kind)
                /\ UNCHANGED <<lastViewport, visibleNext, visibleFresh>>
           ELSE /\ IF r.changed
                   THEN /\ lastViewport' = r.view
                        /\ visibleNext' = r.visible
                        /\ visibleFresh' = TRUE
                   ELSE UNCHANGED <<lastViewport, visibleNext, visibleFresh>>
                /\ pc' = "passive"
                /\ UNCHANGED error
    /\ UNCHANGED <<propVars, totalHeight, totalHeightNext, requestedPos, requestedPosNext,
                   elementsToSize, elementsNext, elementsFresh, visibleElements,
                   mounted, heights, calculationQueue, cancelCalculation, scrollPosition,
                   measuring, firstElementIndex, hostVars,
                   rafPending, committedCount, e2due, e4due, events,
                   lastMeasured, lastScrolled, lastIndexOp, requestVars>>

\* The passive effect of lines 202-227, which has no dependency list: the
\* cleanup of the previous commit (lines 220-226) and the effect body run
\* back to back.  The commit ends; state set by its effects is rendered next.
PassiveEffect ==
    /\ pc = "passive"
    /\ mounted' = TRUE
    /\ cancelCalculation' = FALSE
    /\ lastApplied' = NoApplied
    /\ pc' = IF \/ totalHeightNext # totalHeight
                \/ requestedPosNext # requestedPos
                \/ elementsFresh
                \/ visibleFresh
             THEN "flush"
             ELSE "idle"
    /\ UNCHANGED <<propVars, hookVars, heights, calculationQueue, scrollPosition,
                   lastViewport, measuring, firstElementIndex, hostVars,
                   rafPending, committedCount, e2due, e4due, events, ghostVars,
                   lastRequest, requestedId, requestedIdNext, lastEnsure, lastRefresh>>

\* (variant: the state set by the callback is rendered with the next event's
\* updates, not at once)
RafCallbackBatched ==
    /\ pc \in {"idle", "unmounted"}
    /\ rafPending > 0
    /\ rafPending' = rafPending - 1
    /\ lastEnsure' = NoEnsure
    /\ lastRefresh' = NoRefresh
    /\ LET batch == processHeightMeasureBatch(calculationQueue, cancelCalculation,
                                              calcBatchSize)
       IN  /\ calculationQueue' = batch.queue
           /\ cancelCalculation' = batch.cancel
           /\ lastIndexOp' = IF batch.popped # <<>> THEN "pop" ELSE lastIndexOp
           /\ IF batch.published
              THEN /\ firstElementIndex' = Head(batch.popped)
                   /\ IF pc = "idle"
                      THEN /\ elementsNext' = batch.popped
                           /\ elementsFresh' = TRUE
                           /\ pc' = "event"
                      ELSE UNCHANGED <<elementsNext, elementsFresh, pc>>
              ELSE UNCHANGED <<firstElementIndex, elementsNext, elementsFresh, pc>>
    /\ UNCHANGED <<propVars, totalHeight, totalHeightNext, requestedPos, requestedPosNext,
                   elementsToSize, visibleElements, visibleNext, visibleFresh,
                   mounted, heights, scrollPosition, lastViewport, measuring,
                   hostVars, committedCount, e2due, e4due, events,
                   error, lastMeasured, lastScrolled,
                   lastRequest, requestedId, requestedIdNext, lastApplied>>

\* (variant: the callback may run while a published batch waits for its render)
RafCallbackAnytime ==
    /\ pc \in {"idle", "unmounted", "flush"}
    /\ rafPending > 0
    /\ rafPending' = rafPending - 1
    /\ lastEnsure' = NoEnsure
    /\ lastRefresh' = NoRefresh
    /\ LET batch == processHeightMeasureBatch(calculationQueue, cancelCalculation,
                                              calcBatchSize)
       IN  /\ calculationQueue' = batch.queue
           /\ cancelCalculation' = batch.cancel
           /\ lastIndexOp' = IF batch.popped # <<>> THEN "pop" ELSE lastIndexOp
           /\ IF batch.published
              THEN /\ firstElementIndex' = Head(batch.popped)
                   /\ IF pc # "unmounted"
                      THEN /\ elementsNext' = batch.popped
                           /\ elementsFresh' = TRUE
                           /\ pc' = "flush"
                      ELSE UNCHANGED <<elementsNext, elementsFresh, pc>>
              ELSE UNCHANGED <<firstElementIndex, elementsNext, elementsFresh, pc>>
    /\ UNCHANGED <<propVars, totalHeight, totalHeightNext, requestedPos, requestedPosNext,
                   elementsToSize, visibleElements, visibleNext, visibleFresh,
                   mounted, heights, scrollPosition, lastViewport, measuring,
                   hostVars, committedCount, e2due, e4due, events,
                   error, lastMeasured, lastScrolled,
                   lastRequest, requestedId, requestedIdNext, lastApplied>>

\* The animation-frame callback scheduled at line 234.  After the unmount the
\* state setter of line 416 has no effect.
RafCallback ==
    /\ pc \in {"idle", "unmounted"}
    /\ rafPending > 0
    /\ rafPending' = rafPending - 1
    /\ lastEnsure' = NoEnsure
    /\ lastRefresh' = NoRefresh
    /\ LET batch == processHeightMeasureBatch(calculationQueue, cancelCalculation,
                                              calcBatchSize)
       IN  /\ calculationQueue' = batch.queue
           /\ cancelCalculation' = batch.cancel
           /\ lastIndexOp' = IF batch.popped # <<>> THEN "pop" ELSE lastIndexOp
           /\ IF batch.published
              THEN /\ firstElementIndex' = Head(batch.popped)
                   /\ IF pc = "idle"
                      THEN /\ elementsNext' = batch.popped
                           /\ elementsFresh' = TRUE
                           /\ pc' = "flush"
                      ELSE UNCHANGED <<elementsNext, elementsFresh, pc>>
              ELSE UNCHANGED <<firstElementIndex, elementsNext, elementsFresh, pc>>
    /\ UNCHANGED <<propVars, totalHeight, totalHeightNext, requestedPos, requestedPosNext,
                   elementsToSize, visibleElements, visibleNext, visibleFresh,
                   mounted, heights, scrollPosition, lastViewport, measuring,
                   hostVars, committedCount, e2due, e4due, events,
                   error, lastMeasured, lastScrolled,
                   lastRequest, requestedId, requestedIdNext, lastApplied>>

\* ------------------------------------------------------------------------
\* What the environment does between commits.

\* The parent renders the list with n items (n may be the current count).
SetItemsCount(n) ==
    /\ pc \in {"idle", "event"}
    /\ events < MaxEvents
    /\ itemsCount' = n
    /\ lastEnsure' = NoEnsure
    /\ lastRefresh' = NoRefresh
    /\ events' = events + 1
    /\ pc' = "event"
    /\ UNCHANGED <<heightMode, itemHeight, calcBatchSize, deferPositionRefresh,
                   hookVars, refVars, hostVars, rafPending, committedCount, e2due, e4due,
                   ghostVars, lastRequest, requestedId, requestedIdNext, lastApplied>>

\* setRequestedPos(target) called inside an event handler by the operation op
\* with the argument arg.  The call is recorded with its number, with whether
\* a measurement was in flight and deferred the position (held), and with
\* whether it replaced a request not yet applied (over).
\* (variant: a request that is still pending is kept and the new one dropped)
RequestKeepFirst(op, arg, target) ==
    /\ pc \in {"idle", "event"}
    /\ events < MaxEvents
    /\ requestedPosNext' = IF requestedPosNext >= 0 THEN requestedPosNext ELSE target
    /\ requestedIdNext' = IF requestedPosNext >= 0 THEN requestedIdNext ELSE events + 1
    /\ lastRequest' = [id |-> events + 1, op |-> op, arg |-> arg, target |-> target,
                       held |-> (deferPositionRefresh /\ measuring),
                       over |-> (requestedPosNext >= 0)]
    /\ lastEnsure' = NoEnsure
    /\ lastRefresh' = NoRefresh
    /\ events' = events + 1
    /\ pc' = "event"
    /\ UNCHANGED <<propVars, totalHeight, totalHeightNext, requestedPos,
                   elementsToSize, elementsNext, elementsFresh,
                   visibleElements, visibleNext, visibleFresh,
                   refVars, hostVars, rafPending, committedCount, e2due, e4due, ghostVars,
                   requestedId, lastApplied>>

Request(op, arg, target) ==
    /\ pc \in {"idle", "event"}
    /\ events < MaxEvents
    /\ requestedPosNext' = target
    /\ requestedIdNext' = events + 1
    /\ lastRequest' = [id |-> events + 1, op |-> op, arg |-> arg, target |-> target,
                       held |-> (deferPositionRefresh /\ measuring),
                       over |-> (requestedPosNext >= 0)]
    /\ lastEnsure' = NoEnsure
    /\ lastRefresh' = NoRefresh
    /\ events' = events + 1
    /\ pc' = "event"
    /\ UNCHANGED <<propVars, totalHeight, totalHeightNext, requestedPos,
                   elementsToSize, elementsNext, elementsFresh,
                   visibleElements, visibleNext, visibleFresh,
                   refVars, hostVars, rafPending, committedCount, e2due, e4due, ghostVars,
                   requestedId, lastApplied>>

\* scrollToItemByIndex, lines 568-573
scrollToItemByIndex(index) ==
    /\ index < Len(heights)
    /\ Request("scrollToItemByIndex", index, heights[index + 1].top)

\* (variant: scrolling to the top puts every index back on the queue)
scrollToTopRequeueing ==
    /\ pc \in {"idle", "event"}
    /\ events < MaxEvents
    /\ requestedPosNext' = 0
    /\ requestedIdNext' = events + 1
    /\ lastRequest' = [id |-> events + 1, op |-> "scrollToTop", arg |-> -1, target |-> 0,
                       held |-> (deferPositionRefresh /\ measuring),
                       over |-> (requestedPosNext >= 0)]
    /\ calculationQueue' = Iota(Len(heights))
    /\ lastEnsure' = NoEnsure
    /\ lastRefresh' = NoRefresh
    /\ events' = events + 1
    /\ pc' = "event"
    /\ UNCHANGED <<propVars, totalHeight, totalHeightNext, requestedPos,
                   elementsToSize, elementsNext, elementsFresh,
                   visibleElements, visibleNext, visibleFresh,
                   mounted, heights, cancelCalculation, scrollPosition, lastViewport,
                   measuring, firstElementIndex,
                   hostVars, rafPending, committedCount, e2due, e4due, ghostVars,
                   requestedId, lastApplied>>

\* scrollToTop, lines 578-580
scrollToTop == Request("scrollToTop", -1, 0)

\* (variant: the bottom is taken to be the total height of the list)
scrollToBottomAtTotal == Request("scrollToBottom", -1, totalHeight)

\* scrollToBottom, lines 585-587
scrollToBottom == Request("scrollToBottom", -1, MAX_LIST_PIXELS)

\* the wheel handler of lines 296-300
Wheel(deltaY) ==
    Request("wheel", deltaY, Max(0, scrollPosition + (deltaY \div 20) * itemHeight))

\* (variant: the value reported by the scrollbar is added to the last position)
ScrollbarMovedRelative(delta) == Request("moved", delta, scrollPosition + delta)

\* the moved callbacks of the two scrollbars, lines 336 and 346
ScrollbarMoved(delta) == Request("moved", delta, delta)

\* whether item index lies fully inside the part of the list the host shows
FullyVisible(index) ==
    /\ heights[index + 1].top >= hostScrollTop
    /\ heights[index + 1].top + heights[index + 1].height <= hostScrollTop + hostHeight

\* (variant: the item is scrolled to the top whether or not it is visible)
ensureVisibleAlways(index) ==
    /\ pc \in {"idle", "event"}
    /\ events < MaxEvents
    /\ index < Len(heights)
    /\ lastEnsure' = [index |-> index, visible |-> FullyVisible(index)]
    /\ lastRefresh' = NoRefresh
    /\ requestedPosNext' = heights[index + 1].top
    /\ events' = events + 1
    /\ pc' = "event"
    /\ UNCHANGED <<propVars, totalHeight, totalHeightNext, requestedPos,
                   elementsToSize, elementsNext, elementsFresh,
                   visibleElements, visibleNext, visibleFresh,
                   refVars, hostVars, rafPending, committedCount, e2due, e4due,
                   ghostVars, lastRequest, requestedId, requestedIdNext, lastApplied>>

\* ensureVisible, lines 633-635: the body is empty, no state is set and no
\* commit follows
ensureVisible(index) ==
    /\ pc \in {"idle", "event"}
    /\ events < MaxEvents
    /\ index < Len(heights)
    /\ lastEnsure' = [index |-> index, visible |-> FullyVisible(index)]
    /\ lastRefresh' = NoRefresh
    /\ events' = events + 1
    /\ UNCHANGED <<propVars, hookVars, refVars, hostVars, pc, rafPending, committedCount,
                   e2due, e4due, ghostVars, lastRequest, requestedId, requestedIdNext,
                   lastApplied>>

\* (variant: the refresh builds the position index anew from the estimate)
forceRefreshRebuilding(position) ==
    /\ pc \in {"idle", "event"}
    /\ events < MaxEvents
    /\ hostAttached
    /\ lastRefresh.calls < 2
    /\ lastRefresh' = [calls |-> lastRefresh.calls + 1,
                       view |-> IF lastRefresh.calls = 0
                                THEN getViewPort(heights, hostAttached, hostScrollTop,
                                                 hostHeight)
                                ELSE lastRefresh.view]
    /\ heights' = [i \in 1..Len(heights) |->
                     [top |-> (i - 1) * itemHeight, height |-> itemHeight,
                      resolved |-> (heightMode = "fixed")]]
    /\ lastEnsure' = NoEnsure
    /\ events' = events + 1
    /\ UNCHANGED <<propVars, hookVars, mounted, calculationQueue, cancelCalculation,
                   scrollPosition, lastViewport, measuring, firstElementIndex, hostVars,
                   pc, rafPending, committedCount, e2due, e4due, ghostVars,
                   lastRequest, requestedId, requestedIdNext, lastApplied>>

\* forceRefresh, lines 561-563, called by the host component with a position
\* (-1 stands for a call without one): the body is empty, no state is set and
\* no commit follows.  The viewport recorded is the one a call of getViewPort
\* (lines 592-601) returns after the first call of a row.
forceRefresh(position) ==
    /\ pc \in {"idle", "event"}
    /\ events < MaxEvents
    /\ hostAttached
    /\ lastRefresh.calls < 2
    /\ lastRefresh' = [calls |-> lastRefresh.calls + 1,
                       view |-> IF lastRefresh.calls = 0
                                THEN getViewPort(heights, hostAttached, hostScrollTop,
                                                 hostHeight)
                                ELSE lastRefresh.view]
    /\ lastEnsure' = NoEnsure
    /\ events' = events + 1
    /\ UNCHANGED <<propVars, hookVars, refVars, hostVars, pc, rafPending, committedCount,
                   e2due, e4due, ghostVars, lastRequest, requestedId, requestedIdNext,
                   lastApplied>>

\* The resize observer of lines 258-266 reports that the host now has
\* offsetHeight h.
HostResized(h) ==
    /\ pc = "idle"
    /\ events < MaxEvents
    /\ h # hostHeight
    /\ hostHeight' = h
    /\ events' = events + 1
    /\ lastEnsure' = NoEnsure
    /\ lastRefresh' = NoRefresh
    /\ Reconcile(h, "settle")
    /\ UNCHANGED <<propVars, totalHeight, totalHeightNext, requestedPos,
                   elementsToSize, elementsNext, elementsFresh, visibleElements,
                   mounted, heights, calculationQueue, cancelCalculation, measuring,
                   firstElementIndex, hostAttached,
                   rafPending, committedCount, e2due, e4due, lastMeasured, lastIndexOp,
                   requestedId>>

\* The list is removed: the cleanup of lines 220-226 runs and the host element
\* is detached.
Unmount ==
    /\ pc = "idle"
    /\ events < MaxEvents
    /\ cancelCalculation' = TRUE
    /\ mounted' = FALSE
    /\ hostAttached' = FALSE
    /\ lastEnsure' = NoEnsure
    /\ lastRefresh' = NoRefresh
    /\ events' = events + 1
    /\ pc' = "unmounted"
    /\ UNCHANGED <<propVars, hookVars, heights, calculationQueue, scrollPosition,
                   lastViewport, measuring, firstElementIndex,
                   hostScrollTop, hostHeight, verticalDims,
                   rafPending, committedCount, e2due, e4due, ghostVars,
                   lastRequest, requestedId, requestedIdNext, lastApplied>>

Next ==
    \/ Render
    \/ LayoutItemsCount
    \/ LayoutElementsToSize
    \/ LayoutEveryRender
    \/ LayoutVisibleElements
    \/ PassiveEffect
    \/ RafCallback
    \/ \E n \in 0..MaxItems : SetItemsCount(n)
    \/ \E i \in 0..(MaxItems - 1) : scrollToItemByIndex(i)
    \/ scrollToTop
    \/ scrollToBottom
    \/ \E d \in WheelDeltas : Wheel(d)
    \/ \E d \in DragTargets : ScrollbarMoved(d)
    \/ \E i \in 0..(MaxItems - 1) : ensureVisible(i)
    \/ \E p \in RefreshPositions : forceRefresh(p)
    \/ \E h \in HostSizes : HostResized(h)
    \/ Unmount

Spec == Init /\ [][Next]_vars

\* ------------------------------------------------------------------------
\* Properties of the position index and of the viewport search

N == Len(heights)

\* the values a search is tried with: every item's top and end, and the
\* neighbours of both
Probes(h) ==
    {v \in UNION {{h[i].top - 1, h[i].top, h[i].top + 1,
                   h[i].top + h[i].height - 1, h[i].top + h[i].height,
                   h[i].top + h[i].height + 1} : i \in 1..Len(h)} : v >= 0}

\* the sum of the sizes read from the sizer host for the items 0..n-1
RECURSIVE SumMeasured(_)
SumMeasured(n) == IF n = 0 THEN 0 ELSE lastMeasured[n - 1] + SumMeasured(n - 1)

\* the size the position index should hold for item i: the measured size of a
\* resolved item, the estimate of an unresolved one
RECURSIVE SumExpected(_)
SumExpected(n) ==
    IF n = 0
    THEN 0
    ELSE (IF heights[n].resolved THEN lastMeasured[n - 1] ELSE itemHeight)
         + SumExpected(n - 1)

\* C1: after a rebuild and after every applied measurement batch, and in
\* every other reachable state, offset[0] = 0 and
\* offset[i+1] = offset[i] + size[i] for every i with 0 <= i < N-1.
C1_PrefixSum ==
    /\ N > 0 => heights[1].top = 0
    /\ \A i \in 1..(N - 1) : heights[i + 1].top = heights[i].top + heights[i].height

\* a batch has been applied in front of items that were shifted
C1_Witness ==
    /\ lastIndexOp \in {"apply", "pop"}
    /\ N >= 2
    /\ heights[1].resolved
    /\ heights[1].height # itemHeight
    /\ heights[2].top = heights[1].height

\* C2: right after a rebuild for itemsCount items of size itemHeight there
\* are exactly itemsCount extents, extent i has offset i*itemHeight and size
\* itemHeight; in fixed mode all are resolved and the queue is empty, in
\* dynamic mode none is resolved and the queue is 0, 1, ..., itemsCount-1.
C2_Rebuild ==
    (pc = "E2" /\ lastIndexOp = "rebuild") =>
        /\ N = itemsCount
        /\ \A i \in 0..(N - 1) : /\ heights[i + 1].top = i * itemHeight
                                 /\ heights[i + 1].height = itemHeight
        /\ heightMode = "fixed" =>
              /\ \A i \in 1..N : heights[i].resolved
              /\ calculationQueue = <<>>
        /\ heightMode = "dynamic" =>
              /\ \A i \in 1..N : ~heights[i].resolved
              /\ calculationQueue = Iota(itemsCount)

\* a rebuild of a dynamic list with several items has just run
C2_Witness ==
    /\ pc = "E2"
    /\ lastIndexOp = "rebuild"
    /\ heightMode = "dynamic"
    /\ N = MaxItems
    /\ calculationQueue = Iota(MaxItems)

\* C3: a rebuild raises the construction error exactly when
\* itemsCount * itemHeight exceeds MAX_LIST_PIXELS; the error ends the commit
\* at once and names the smallest index i with (i+1) * itemHeight over the
\* maximum.
C3_ConstructionError ==
    /\ error.kind = "MaxHeight" =>
          /\ pc = "crashed"
          /\ itemsCount * itemHeight > MAX_LIST_PIXELS
          /\ error.index \in 0..(itemsCount - 1)
          /\ (error.index + 1) * itemHeight > MAX_LIST_PIXELS
          /\ error.index * itemHeight <= MAX_LIST_PIXELS
    /\ (pc = "E2" /\ lastIndexOp = "rebuild") =>
          /\ itemsCount * itemHeight <= MAX_LIST_PIXELS
          /\ error.kind = "none"
    /\ (itemsCount = 1 /\ itemHeight = 10000001 /\ error.kind = "MaxHeight") =>
          error.index = 0

\* the error was raised for an index other than the first
C3_Witness ==
    /\ error.kind = "MaxHeight"
    /\ error.index = 2
    /\ itemHeight = 5000000

\* a rebuild whose total extent is exactly the maximum raised nothing
C3_WitnessAtMaximum ==
    /\ pc = "E2"
    /\ lastIndexOp = "rebuild"
    /\ totalHeightNext = MAX_LIST_PIXELS

\* C4 (as claimed): in every reachable state the total extent is at most
\* MAX_LIST_PIXELS.
C4_TotalWithinMaximum ==
    /\ totalHeightNext <= MAX_LIST_PIXELS
    /\ SumHeights(heights) <= MAX_LIST_PIXELS

\* C5: in dynamic mode, once the last batch of a pass has been applied and
\* the queue is empty, every extent is resolved and the total extent is the
\* sum of the sizes measured for the items 0..N-1.
C5_Convergence ==
    (heightMode = "dynamic" /\ lastIndexOp = "apply" /\ calculationQueue = <<>>) =>
        /\ N = committedCount
        /\ \A i \in 1..N : heights[i].resolved
        /\ \A i \in 0..(N - 1) : lastMeasured[i] = heights[i + 1].height
        /\ totalHeightNext = SumMeasured(N)
        /\ ~measuring

\* a pass over a full list has been drained in more than one batch
C5_Witness ==
    /\ heightMode = "dynamic"
    /\ lastIndexOp = "apply"
    /\ calculationQueue = <<>>
    /\ N = MaxItems
    /\ calcBatchSize < MaxItems
    /\ totalHeightNext = MaxItems * 6000000

\* C6: once a batch has been applied, the published total extent is the sum
\* of the sizes stored for all N items: the measured size of every resolved
\* item and the estimate of every unresolved one.
C6_TotalAfterBatch ==
    (heightMode = "dynamic" /\ \E i \in 1..N : heights[i].resolved) =>
        /\ totalHeightNext = SumHeights(heights)
        /\ totalHeightNext = SumExpected(N)

\* the first batch of a longer list has been applied: its items hold the
\* measured size, the others the estimate
C6_Witness ==
    /\ heightMode = "dynamic"
    /\ N = MaxItems
    /\ heights[1].resolved
    /\ heights[1].height = 6000000
    /\ ~heights[N].resolved
    /\ totalHeightNext = 6000000 * Cardinality({i \in 1..N : heights[i].resolved})
                         + itemHeight * Cardinality({i \in 1..N : ~heights[i].resolved})

\* C7 (as claimed): whenever the list is not empty and the host has a positive
\* size, getViewPort returns indices with 0 <= startIndex <= endIndex < N, at
\* every scroll offset and for every position index the list can hold.
C7_ViewportInRange ==
    N > 0 =>
        \A v \in Probes(heights) \cup {hostScrollTop} :
            \A hh \in {x \in HostSizes \cup {1} : x > 0} :
                LET r == getViewPort(heights, TRUE, v, hh)
                IN  /\ r.kind = "ok"
                    /\ 0 <= r.startIndex
                    /\ r.startIndex <= r.endIndex
                    /\ r.endIndex < N

\* C8 (as claimed): when the list is empty or the host has no height,
\* getViewPort returns startIndex = endIndex = -1, and no call of it inside a
\* commit raises an error.
C8_Sentinel ==
    (committedCount = 0 \/ (committedCount > 0 /\ hostHeight = 0)) =>
        /\ error.kind # "TypeError"
        /\ pc = "idle" =>
              getViewPort(heights, hostAttached, hostScrollTop, hostHeight)
                  = [kind |-> "ok", startIndex |-> -1, endIndex |-> -1]

\* C9 (as claimed, for the items that have a pixel to show): for every item i
\* of positive size, in every position index the list can hold (also one
\* that holds measured sizes of 0), a window of one pixel at
\* offset[i] resolves to startIndex = i.
C9_OnePixelWindow ==
    \A i \in 0..(N - 1) :
        heights[i + 1].height > 0 =>
            LET r == getViewPort(heights, TRUE, heights[i + 1].top, 1)
            IN  r.kind = "ok" /\ r.startIndex = i

\* C10 (as claimed): for every value v with 0 <= v < total extent the search
\* returns the item i with offset[i] <= v < offset[i] + size[i], so that the
\* end of item i resolves to item i+1.
C10_SearchInvariant ==
    \A v \in Probes(heights) :
        v < SumHeights(heights) =>
            LET r == binarySearch(heights, v)
            IN  /\ r.kind = "ok"
                /\ heights[r.index + 1].top <= v
                /\ v < heights[r.index + 1].top + heights[r.index + 1].height

\* ------------------------------------------------------------------------
\* Properties of scroll requests

\* C11 (as claimed): for a list that is not empty and every value at or past
\* the total extent the search returns the last index N-1.
C11_PastEnd ==
    N > 0 =>
        \A v \in {SumHeights(heights), SumHeights(heights) + 1,
                  SumHeights(heights) + hostHeight} :
            binarySearch(heights, v) = [kind |-> "ok", index |-> N - 1]

\* the scrollable range of the host in the current commit
MaxScrollTop == Max(0, Max(totalHeight, hostHeight) - hostHeight)

\* C12: a navigation call sets the pending request to a target computed from
\* the position index as it is at the call: scrollToItemByIndex(i) to
\* offset[i], scrollToTop to 0 and scrollToBottom to MAX_LIST_PIXELS; when the
\* request of scrollToBottom is applied the host ends at that target or, when
\* its scrollable range is shorter, at the end of the range.
C12_NavigationTargets ==
    /\ (pc = "event" /\ lastRequest.id = events
        /\ lastRequest.op \in {"scrollToItemByIndex", "scrollToTop", "scrollToBottom"}) =>
          /\ requestedPosNext = lastRequest.target
          /\ requestedIdNext = lastRequest.id
          /\ lastRequest.op = "scrollToItemByIndex" =>
                /\ lastRequest.arg \in 0..(N - 1)
                /\ lastRequest.target = heights[lastRequest.arg + 1].top
          /\ lastRequest.op = "scrollToTop" => lastRequest.target = 0
          /\ lastRequest.op = "scrollToBottom" => lastRequest.target = 10000000
    /\ (pc \in {"E4", "passive"} /\ lastApplied.op = "scrollToBottom") =>
          /\ lastApplied.target = 10000000
          /\ lastApplied.pos = Min(10000000, MaxScrollTop)
          /\ hostScrollTop = lastApplied.pos

\* scrollToItemByIndex has just been called for an item that is not the first
C12_Witness ==
    /\ pc = "event"
    /\ lastRequest.id = events
    /\ lastRequest.op = "scrollToItemByIndex"
    /\ lastRequest.arg >= 1
    /\ requestedPosNext = heights[lastRequest.arg + 1].top
    /\ requestedPosNext > 0

\* C13: at most one request is pending, and it is the one made last: a
\* request made while another one is pending replaces it, the reconciliation
\* step applies the target of the request made last, and a replaced request
\* is never applied.
C13_LastWriteWins ==
    /\ requestedPosNext >= 0 =>
          /\ requestedIdNext = lastRequest.id
          /\ requestedPosNext = lastRequest.target
    /\ requestedPosNext < 0 => requestedIdNext = 0
    /\ lastApplied.id # 0 =>
          /\ lastApplied.id = lastApplied.latest
          /\ lastApplied.target = lastApplied.asked

\* a request that replaced a pending one has been applied
C13_Witness ==
    /\ lastApplied.id # 0
    /\ lastApplied.over
    /\ lastApplied.id = events
    /\ lastApplied.pos = lastApplied.target

\* C14: with deferPositionRefresh set, a reconciliation pass made while a
\* measurement is in flight (the layout effect of every commit, or the resize
\* callback) leaves the host's scroll offset where the host has it, leaves the
\* last-known scroll offset, calls scrolled for nothing and keeps the pending
\* request; a request made while measuring is applied only once the queue is
\* empty, every item is resolved and the measuring flag is cleared.
C14_DeferredWhileMeasuring ==
    /\ [][(deferPositionRefresh /\ measuring /\ (pc = "E3" \/ hostHeight' # hostHeight)) =>
            /\ scrollPosition' = scrollPosition
            /\ lastScrolled' = lastScrolled
            /\ lastApplied' = lastApplied
            /\ requestedPosNext' = requestedPosNext
            /\ requestedIdNext' = requestedIdNext
            /\ pc = "E3" => hostScrollTop' = hostScrollTop
            /\ hostHeight' # hostHeight =>
                  hostScrollTop' = Max(0, Min(hostScrollTop,
                                              Max(totalHeight, hostHeight') - hostHeight'))]_vars
    /\ [](lastApplied.held =>
            /\ lastApplied.settled
            /\ deferPositionRefresh
            /\ ~measuring)

\* a request made while measuring has been applied after the pass settled
C14_Witness ==
    /\ lastApplied.held
    /\ lastApplied.settled
    /\ lastApplied.target > 0
    /\ hostScrollTop = lastApplied.target
    /\ N >= 2

\* C15: when a request is pending and deferPositionRefresh is off or no
\* measurement is in flight, the reconciliation pass of the commit sets the
\* host's scroll offset to the target clamped to the scrollable range, stores
\* the resulting offset as the last-known one, calls scrolled once with it and
\* clears the request; between commits a request is pending only while it is
\* deferred.
C15_AppliedOnNextPass ==
    /\ (pc = "E4" /\ requestedPos >= 0 /\ (~deferPositionRefresh \/ ~measuring)) =>
          /\ hostScrollTop = Max(0, Min(requestedPos,
                                        Max(totalHeight, hostHeight) - hostHeight))
          /\ scrollPosition = hostScrollTop
          /\ lastScrolled = hostScrollTop
          /\ lastApplied.id = requestedId
          /\ lastApplied.latest = requestedId
          /\ lastApplied.target = requestedPos
          /\ lastApplied.pos = hostScrollTop
          /\ requestedPosNext = -1
    /\ (pc = "idle" /\ ~(deferPositionRefresh /\ measuring)) =>
          /\ requestedPos = -1
          /\ requestedPosNext = -1
          /\ lastApplied.id = 0

\* a request past the end of the list has been applied and clamped
C15_Witness ==
    /\ pc = "E4"
    /\ requestedPos > Max(totalHeight, hostHeight) - hostHeight
    /\ lastApplied.id = requestedId
    /\ lastApplied.id # 0
    /\ hostScrollTop = totalHeight - hostHeight
    /\ hostScrollTop > 0
    /\ lastScrolled = hostScrollTop

\* C16 (as claimed): a request held while measuring does not stay pending for
\* ever: once the component has come to rest (no commit is running, no
\* animation-frame callback is scheduled and the queue is empty, so that
\* nothing more happens until the next event) no request is pending.
C16_HeldEventuallyApplied ==
    (pc = "idle" /\ rafPending = 0 /\ calculationQueue = <<>> /\ elementsNext = <<>>) =>
        /\ requestedPos = -1
        /\ requestedPosNext = -1

\* C17 (as claimed): when the request of a scrollToItemByIndex(i) made while
\* measuring with deferPositionRefresh set is applied, the host's scroll
\* offset becomes offset[i] as the settled position index has it, provided
\* that offset lies within the host's scrollable range.
C17_SettledOffset ==
    (/\ pc = "E4"
     /\ lastApplied.op = "scrollToItemByIndex"
     /\ lastApplied.held
     /\ lastApplied.arg < N
     /\ heights[lastApplied.arg + 1].top <= MaxScrollTop) =>
        /\ hostScrollTop = heights[lastApplied.arg + 1].top
        /\ scrollPosition = heights[lastApplied.arg + 1].top

\* C18: a scrollbar drag that reports the offset d acts as a navigation
\* request for d: the call changes nothing but the pending request, which it
\* replaces by d; the request is held while measuring with
\* deferPositionRefresh set; and the reconciliation pass applies it to the
\* host's scroll offset, clamped, with the same scrolled notification.
C18_DragIsRequest ==
    /\ [][(lastRequest'.op = "moved" /\ events' # events
           /\ lastRequest'.id = events') =>
            /\ requestedPosNext' = lastRequest'.arg
            /\ requestedIdNext' = events'
            /\ pc' = "event"
            /\ UNCHANGED <<refVars, hostVars, totalHeightNext, elementsNext, visibleNext,
                           lastScrolled, requestedPos, rafPending>>]_vars
    /\ []((pc = "E3" /\ lastRequest.op = "moved" /\ requestedPosNext >= 0) =>
            /\ requestedPos = lastRequest.arg
            /\ requestedId = lastRequest.id)
    /\ []((pc = "E4" /\ lastRequest.op = "moved") =>
            /\ deferPositionRefresh /\ measuring
            /\ requestedPosNext = lastRequest.arg)
    /\ []((pc = "E4" /\ lastApplied.op = "moved") =>
            /\ ~(deferPositionRefresh /\ measuring)
            /\ lastApplied.held => lastApplied.settled
            /\ lastApplied.target = lastApplied.arg
            /\ hostScrollTop = Max(0, Min(lastApplied.arg,
                                          Max(totalHeight, hostHeight) - hostHeight))
            /\ scrollPosition = hostScrollTop
            /\ lastScrolled = hostScrollTop
            /\ requestedPosNext = -1)

\* a drag made while measuring has been held and then applied
C18_Witness ==
    /\ pc = "E4"
    /\ lastApplied.op = "moved"
    /\ lastApplied.held
    /\ hostScrollTop = lastApplied.arg
    /\ lastScrolled = lastApplied.arg

\* C19 (as claimed): after ensureVisible(i) for an item that is not fully
\* inside the viewport (and is not larger than the viewport) a request is
\* pending whose application leaves the item's extent fully inside the
\* viewport.
C19_EnsureVisibleScrolls ==
    (/\ lastEnsure.index >= 0
     /\ ~lastEnsure.visible
     /\ lastEnsure.index < N
     /\ heights[lastEnsure.index + 1].height <= hostHeight) =>
        /\ requestedPosNext >= 0
        /\ LET t == Max(0, Min(requestedPosNext,
                               Max(totalHeightNext, hostHeight) - hostHeight))
               item == heights[lastEnsure.index + 1]
           IN  /\ item.top >= t
               /\ item.top + item.height <= t + hostHeight

\* C20: ensureVisible(i) for an item that lies fully inside the viewport makes
\* no request: the pending request, the host's scroll offset and the last-known
\* scroll offset stay as they are and no commit is started.
C20_EnsureVisibleNoOp ==
    [][(events' # events /\ lastEnsure'.index >= 0 /\ lastEnsure'.visible) =>
          UNCHANGED <<requestedPosNext, requestedIdNext, requestedPos, requestedId,
                      lastRequest, hostScrollTop, scrollPosition, lastScrolled, pc>>]_vars

\* ensureVisible has been called for the second item, which the host shows
C20_Witness ==
    /\ lastEnsure.index >= 1
    /\ lastEnsure.visible
    /\ hostHeight > 0
    /\ heights[lastEnsure.index + 1].height > 0
    /\ requestedPosNext = -1
    /\ pc = "idle"

\* ------------------------------------------------------------------------
\* Properties of forceRefresh

\* C21: forceRefresh called twice in a row yields the same viewport after
\* the first call and after the second, and neither call rebuilds or changes
\* the position index (nor the queue, the total extent or the host's scroll
\* offset and size the viewport is computed from).
C21_ForceRefreshIdempotent ==
    /\ [][lastRefresh'.calls > lastRefresh.calls =>
            UNCHANGED <<heights, calculationQueue, totalHeight, totalHeightNext,
                        hostScrollTop, hostHeight, hostAttached, committedCount,
                        lastIndexOp>>]_vars
    /\ [](lastRefresh.calls = 2 =>
            getViewPort(heights, hostAttached, hostScrollTop, hostHeight)
                = lastRefresh.view)

\* forceRefresh has been called twice in a row on a measured list that shows
\* its first item
C21_Witness ==
    /\ lastRefresh.calls = 2
    /\ heightMode = "dynamic"
    /\ N >= 2
    /\ heights[1].resolved
    /\ heights[1].height # itemHeight
    /\ lastRefresh.view = [kind |-> "ok", startIndex |-> 0, endIndex |-> 0]

\* C22 (as claimed): a call of forceRefresh made while the scroll offset and
\* the host size are what the last reconciliation pass saw sets the
\* materialized items anew and starts a pass that sends the host's dimensions
\* to the scrollbar again.
C22_ForceRefreshResolves ==
    (lastRefresh.calls > 0 /\ ~(deferPositionRefresh /\ measuring)) =>
        /\ visibleFresh
        /\ pc = "event"

\* ------------------------------------------------------------------------
\* Properties of the measurement pass

\* the sequence from, from+1, ..., to-1
Run(from, to) == [j \in 1..(to - from) |-> from + j - 1]

\* the indices of the resolved extents
Resolved == {i \in 0..(N - 1) : heights[i + 1].resolved}

\* C23: indices are measured in queue order: the queue is always the run of
\* the indices not yet taken, a batch is the run of indices in front of the
\* queue's head, a batch is applied when every index below it is resolved,
\* and so, as long as no batch was cancelled, the resolved indices are at
\* every moment a prefix 0..k-1 of the list.
C23_QueueOrder ==
    (heightMode = "dynamic" /\ pc # "unmounted") =>
        /\ \E k \in 0..N : Resolved = 0..(k - 1)
        /\ \E k \in 0..N : calculationQueue = Run(k, N)
        /\ (elementsFresh /\ elementsNext # <<>>) =>
              /\ elementsNext = Run(elementsNext[1], N - Len(calculationQueue))
              /\ firstElementIndex = elementsNext[1]
              /\ 0..(elementsNext[1] - 1) \subseteq
                    Resolved \cup {elementsToSize[i] : i \in 1..Len(elementsToSize)}
        /\ (pc = "E2" /\ e2due /\ elementsToSize # <<>>) =>
              /\ Resolved = 0..(elementsToSize[1] - 1)
              /\ elementsToSize = Run(firstElementIndex,
                                      firstElementIndex + Len(elementsToSize))

\* the third batch of a pass is about to be applied, the two before it are
\* resolved
C23_Witness ==
    /\ heightMode = "dynamic"
    /\ pc = "E2" /\ e2due
    /\ N = MaxItems
    /\ elementsToSize = <<2>>
    /\ Resolved = {0, 1}
    /\ calculationQueue = <<>>

\* C24: as long as no cancellation is requested, a batch takes exactly
\* min(queue length, batchSize) indices off the front of the queue, so no
\* batch ever holds more than batchSize items.
C24_BatchSize ==
    /\ [][(pc \in {"E2", "idle", "unmounted"} /\ calculationQueue' # calculationQueue
           /\ ~cancelCalculation) =>
            LET n == Min(Len(calculationQueue), calcBatchSize)
            IN  /\ Len(calculationQueue') = Len(calculationQueue) - n
                /\ calculationQueue' = SubSeq(calculationQueue, n + 1,
                                              Len(calculationQueue))
                /\ pc # "unmounted" => elementsNext' = SubSeq(calculationQueue, 1, n)]_vars
    /\ [](/\ Len(elementsNext) <= calcBatchSize
          /\ Len(elementsToSize) <= calcBatchSize)

\* a batch of batchSize items has been taken off a longer queue
C24_Witness ==
    /\ calcBatchSize = 2
    /\ elementsFresh
    /\ elementsNext = <<0, 1>>
    /\ calculationQueue = <<2>>

\* C25 (as claimed): the step that applies a batch takes no further batch
\* off the queue; the next batch is left to a later tick.
C25_NextBatchOnLaterTick ==
    (pc = "E3" /\ e2due /\ elementsToSize # <<>>) => lastIndexOp # "pop"

\* C26 (as claimed): after every rebuild in dynamic mode the pass settles:
\* once the component has come to rest (no commit is running and no
\* animation-frame callback is scheduled, so that nothing more happens until
\* the next event) the queue is empty, every extent is resolved and the
\* measuring flag is cleared.
C26_PassSettles ==
    (heightMode = "dynamic" /\ pc = "idle" /\ rafPending = 0) =>
        /\ calculationQueue = <<>>
        /\ Resolved = 0..(N - 1)
        /\ ~measuring

\* a batch is begun (by the animation-frame callback, the only caller that
\* can find the flag set) with the cancellation flag set and a queue that is
\* not empty
AbortedBatch ==
    /\ pc = "unmounted"
    /\ rafPending' < rafPending
    /\ cancelCalculation
    /\ calculationQueue # <<>>

\* C27: a batch that finds the cancellation flag set returns at once: the
\* flag is cleared, nothing is published for measuring and the position
\* index (offsets, sizes, resolved flags, total extent) stays as it is.
C27_CancelledBatch ==
    [][AbortedBatch =>
          /\ ~cancelCalculation'
          /\ UNCHANGED <<heights, totalHeight, totalHeightNext, lastMeasured,
                         elementsToSize, elementsNext, elementsFresh, firstElementIndex,
                         measuring, lastIndexOp>>]_vars

\* a batch has been cancelled before the first item of a rebuilt list was
\* measured
C27_Witness ==
    /\ pc = "unmounted"
    /\ ~mounted
    /\ ~cancelCalculation
    /\ measuring
    /\ N >= 2
    /\ Resolved = {}
    /\ elementsNext = <<>>
    /\ totalHeightNext = N * itemHeight

\* C28: when a batch aborts on cancellation the queue is left as it was: it
\* holds, in their order, every index that has not been measured, the one at
\* which the cancellation was seen (its head) included.
C28_QueueIntactOnAbort ==
    [][AbortedBatch =>
          /\ calculationQueue' = calculationQueue
          /\ \A i \in 0..(N - 1) :
                ~heights[i + 1].resolved =>
                    \E j \in 1..Len(calculationQueue') : calculationQueue'[j] = i
          /\ \A j \in 1..(Len(calculationQueue') - 1) :
                calculationQueue'[j] < calculationQueue'[j + 1]]_vars

\* a batch has been cancelled and the queue still holds every index of the
\* list
C28_Witness ==
    /\ pc = "unmounted"
    /\ ~cancelCalculation
    /\ rafPending = 1
    /\ N = MaxItems
    /\ calculationQueue = Run(0, MaxItems)

\* C29: a batch taken off the queue before a rebuild is never applied to the
\* position index the rebuild made: the effect that applies a batch never runs
\* in the commit of a rebuild, the batch it applies lies inside the index, was
\* taken from the index as it is and holds no item measured before; the index
\* always has exactly as many extents as the last rebuild gave it; and right
\* after a rebuild the queue is 0..N-1 for the new N in dynamic mode.
C29_NoStaleBatch ==
    /\ (pc = "E2" /\ e2due /\ elementsToSize # <<>>) =>
          /\ lastIndexOp # "rebuild"
          /\ firstElementIndex = elementsToSize[1]
          /\ \A i \in 1..Len(elementsToSize) :
                /\ elementsToSize[i] < N
                /\ ~heights[elementsToSize[i] + 1].resolved
                /\ \A j \in 1..Len(calculationQueue) :
                      calculationQueue[j] # elementsToSize[i]
    /\ committedCount >= 0 => N = committedCount
    /\ (pc = "E2" /\ lastIndexOp = "rebuild" /\ heightMode = "dynamic") =>
          /\ calculationQueue = Run(0, itemsCount)
          /\ Resolved = {}

\* the list has been rebuilt by an event after the pass of the mount was
\* over, and the first batch of the new pass is about to be applied
C29_Witness ==
    /\ pc = "E2" /\ e2due
    /\ heightMode = "dynamic"
    /\ events >= 1
    /\ N = 1
    /\ elementsToSize = <<0>>
    /\ calculationQueue = <<>>
    /\ lastIndexOp = "pop"

\* C30: applying the measured run [f, f+k) sets size and resolved flag of the
\* items of the run only: every extent below f stays as it is, and of every
\* extent at or above f+k nothing but the offset changes.
C30_ApplyFrame ==
    [][(pc = "E2" /\ e2due /\ elementsToSize # <<>> /\ pc' = "E3") =>
          LET f == firstElementIndex
              k == Len(elementsToSize)
          IN  /\ Len(heights') = Len(heights)
              /\ \A i \in 0..(N - 1) :
                    /\ i < f => heights'[i + 1] = heights[i + 1]
                    /\ (f <= i /\ i < f + k) =>
                          /\ heights'[i + 1].resolved
                          /\ heights'[i + 1].height = lastMeasured'[i]
                    /\ i >= f + k =>
                          /\ heights'[i + 1].height = heights[i + 1].height
                          /\ heights'[i + 1].resolved = heights[i + 1].resolved]_vars

\* a run in the middle of the list has been applied: the item before it and
\* the item after it both exist, and the item after it has been shifted
C30_Witness ==
    /\ pc = "E3" /\ e2due
    /\ elementsToSize = <<1>>
    /\ N = 3
    /\ heights[1].resolved /\ heights[2].resolved /\ ~heights[3].resolved
    /\ heights[2].height # itemHeight
    /\ heights[3].top = heights[1].height + heights[2].height
    /\ heights[3].height = itemHeight

\* ------------------------------------------------------------------------
\* Properties that relate the position index, the viewport and the host

\* a step of one of the navigation calls (a call of setRequestedPos, of
\* ensureVisible or of forceRefresh), of the reconciliation pass of a commit
\* or of the resize callback
NavigationStep ==
    \/ (events' # events /\ lastRequest'.id = events')
    \/ lastEnsure'.index >= 0
    \/ lastRefresh'.calls > lastRefresh.calls
    \/ pc = "E3"
    \/ hostHeight' # hostHeight

\* C31: the navigation calls (scrollToItemByIndex, scrollToTop,
\* scrollToBottom, ensureVisible, forceRefresh), the reconciliation step that
\* applies a request, and getViewPort, which those steps call, never change
\* the position index (offsets, sizes, resolved flags) or the measurement
\* queue.
C31_NavigationFrame ==
    [][NavigationStep => UNCHANGED <<heights, calculationQueue>>]_vars

\* a request for an item has been applied while the position index held
\* measured items
C31_Witness ==
    /\ pc = "E4"
    /\ lastApplied.op = "scrollToItemByIndex"
    /\ heightMode = "dynamic"
    /\ N >= 2
    /\ heights[1].resolved
    /\ heights[1].height # itemHeight

\* the viewport getViewPort resolves for the host as it is
CurrentView == getViewPort(heights, hostAttached, hostScrollTop, hostHeight)

\* C32 (as claimed): when the reconciliation cycle that applied measurement
\* batches has ended (the component is at rest, or the cycle is stuck in a
\* search that never returns) and the refresh is not deferred, the scrollbar
\* holds a snapshot of the host taken with the new total extent and the
\* viewport has been resolved against the new position index.
C32_RefreshAfterBatch ==
    (/\ pc \in {"idle", "hung"}
     /\ heightMode = "dynamic"
     /\ Resolved # {}
     /\ ~(deferPositionRefresh /\ measuring)) =>
        /\ totalHeight = SumHeights(heights)
        /\ verticalDims = [hostSize |-> hostHeight, hostScrollPos |-> hostScrollTop,
                           hostScrollSize |-> Max(totalHeight, hostHeight)]
        /\ CurrentView.kind = "ok"
        /\ (CurrentView.startIndex >= 0 /\ CurrentView.endIndex >= 0) =>
              lastViewport = [startIndex |-> CurrentView.startIndex,
                              endIndex |-> CurrentView.endIndex]

\* the same for the cycles that come to rest, with the deferred case: while
\* measuring with deferPositionRefresh set no snapshot is sent and no viewport
\* is resolved
C32_RefreshAtRest ==
    /\ []((/\ pc = "idle"
           /\ heightMode = "dynamic"
           /\ Resolved # {}
           /\ ~(deferPositionRefresh /\ measuring)) =>
            /\ totalHeight = SumHeights(heights)
            /\ verticalDims = [hostSize |-> hostHeight, hostScrollPos |-> hostScrollTop,
                               hostScrollSize |-> Max(totalHeight, hostHeight)]
            /\ CurrentView.kind = "ok"
            /\ (CurrentView.startIndex >= 0 /\ CurrentView.endIndex >= 0) =>
                  lastViewport = [startIndex |-> CurrentView.startIndex,
                                  endIndex |-> CurrentView.endIndex])
    /\ [][(deferPositionRefresh /\ measuring /\ measuring') =>
            UNCHANGED <<verticalDims, lastViewport, visibleNext, visibleFresh>>]_vars

\* C33 (as claimed): for every position index the list can hold with N > 0
\* (also one that holds items of size 0) and every value >= 0 the search of
\* getViewPort comes to an end.
C33_SearchTerminates ==
    N > 0 =>
        \A v \in Probes(heights) \cup {hostScrollTop, hostScrollTop + hostHeight} :
            binarySearch(heights, v).kind # "Hang"

\* the items the current viewport names, each at the offset the position
\* index holds for it
Materialized ==
    [k \in 1..(CurrentView.endIndex - CurrentView.startIndex + 1) |->
        [index |-> CurrentView.startIndex + k - 1,
         top |-> heights[CurrentView.startIndex + k].top]]

\* C34 (as claimed): once the commits that follow a reconciliation pass are
\* through and the component is at rest, with the refresh not deferred and a
\* viewport that is not empty, the materialized items are the items
\* startIndex..endIndex of the current viewport, each at its current offset.
C34_MaterializedItems ==
    (/\ pc = "idle"
     /\ ~(deferPositionRefresh /\ measuring)
     /\ N > 0
     /\ CurrentView.kind = "ok"
     /\ CurrentView.startIndex >= 0
     /\ CurrentView.endIndex >= CurrentView.startIndex) =>
        visibleElements = Materialized

\* C35: the step in which a rebuild raises the construction error leaves the
\* position index, the queue, the total extent and the measuring flag as the
\* rebuild before it left them, and schedules no batch.
C35_FailedRebuildFrame ==
    [][(error.kind = "none" /\ error'.kind = "MaxHeight") =>
          UNCHANGED <<heights, calculationQueue, totalHeight, totalHeightNext, measuring,
                      rafPending, committedCount, elementsNext, elementsFresh,
                      firstElementIndex>>]_vars

\* a list of two items has been rendered with three, which is too much
C35_Witness ==
    /\ error = [kind |-> "MaxHeight", index |-> 2]
    /\ pc = "crashed"
    /\ itemsCount = 3
    /\ committedCount = 2
    /\ N = 2
    /\ totalHeightNext >= 2 * 5000000

\* C36: in every reachable state the queue is strictly increasing and is the
\* run k..N-1 of the last indices of the list for some k, every index in it
\* is unresolved, and in fixed mode it is empty.
C36_QueueShape ==
    /\ \E k \in 0..N : calculationQueue = Run(k, N)
    /\ \A j \in 1..(Len(calculationQueue) - 1) :
          calculationQueue[j] < calculationQueue[j + 1]
    /\ \A j \in 1..Len(calculationQueue) :
          /\ calculationQueue[j] \in 0..(N - 1)
          /\ ~heights[calculationQueue[j] + 1].resolved
    /\ heightMode = "fixed" => calculationQueue = <<>>

\* two batches have been taken off the queue of a full list, the first has
\* been applied, and one index is left on the queue
C36_Witness ==
    /\ heightMode = "dynamic"
    /\ N = MaxItems
    /\ calculationQueue = <<MaxItems - 1>>
    /\ heights[1].resolved
    /\ ~heights[2].resolved

\* a batch has been taken off the queue and not been applied yet
Awaiting ==
    \/ (elementsFresh /\ elementsNext # <<>>)
    \/ (elementsToSize # <<>> /\ e2due /\ pc \in {"E1", "E2"})

\* C37: in dynamic mode the measuring flag is set in every state in which the
\* queue is not empty or a batch awaits its application; so, for a list that
\* has not been removed, whenever the flag is clear every extent is resolved.
C37_MeasuringFlag ==
    heightMode = "dynamic" =>
        /\ (calculationQueue # <<>> \/ Awaiting) => measuring
        /\ (~measuring /\ pc # "unmounted") => Resolved = 0..(N - 1)

\* the last batch of a pass has been taken off the queue and awaits its
\* application
C37_Witness ==
    /\ heightMode = "dynamic"
    /\ measuring
    /\ calculationQueue = <<>>
    /\ elementsFresh
    /\ elementsNext = <<MaxItems - 1>>
    /\ Resolved = 0..(MaxItems - 2)

C39_ResolvedIsFinal ==
    [][~(pc = "E1" /\ itemsCount # committedCount) =>
          \A i \in 1..N :
              heights[i].resolved =>
                  /\ i <= Len(heights')
                  /\ heights'[i].resolved
                  /\ heights'[i].height = heights[i].height]_vars

\* a later batch has been applied behind a measured item, which kept its size
C39_Witness ==
    /\ pc = "E3" /\ e2due
    /\ elementsToSize = <<1>>
    /\ N >= 2
    /\ heights[1].resolved /\ heights[2].resolved
    /\ heights[1].height = 6000000
    /\ heights[2].height = 0
    /\ heights[2].top = 6000000

\* C40 (as claimed): whenever the component is at rest and no request is
\* pending, the last-known scroll offset, which the wheel handler adds its
\* delta to, is the host's scroll offset.
C40_LastKnownOffset ==
    (pc = "idle" /\ requestedPos = -1 /\ requestedPosNext = -1) =>
        scrollPosition = hostScrollTop

====
